---- MODULE Spec2Model ----
(***************************************************************************)
(* Control model of assignment.py (DCGAN trainer): main(), train() and     *)
(* test().  Network parameters are abstracted to the number of optimizer   *)
(* steps applied to them; tensors are abstracted to their shape and to the *)
(* parameter versions they were computed from.                             *)
(***************************************************************************)
EXTENDS Integers, Naturals, Sequences, FiniteSets, TLC

\* ------------------------------------------------------------------ bounds
MaxEpochs == 2
MaxGenUpdates == 3
MaxSaveEvery == 3
MaxBatches == 3
MaxBatchSize == 2
MaxScore == 1
MaxPrior == 1
PixDen == 2

\* ------------------------------------------------------- program constants
EvalEvery == 500
max_to_keep == 3
Channels == 3

VARIABLES
    args,           \* the parsed command line (module-level `args`)
    device_ok,      \* whether args.device names a device of this machine
    source_len,     \* number of batches one pass over the dataset yields
    pc,             \* position in main()/train()/test()
    exc,            \* the exception that ended the run, "none" otherwise
    reported,       \* the except clause of main() printed the error
    epoch,          \* loop variable of main()
    remaining,      \* batches the iterator of this epoch can still yield
    enum_count,     \* enumerate()'s counter
    iteration,      \* loop variable `iteration` of train()
    batch,          \* shape of the loop variable `batch`
    gen_params,     \* optimizer steps applied to the generator
    disc_params,    \* optimizer steps applied to the discriminator
    gen_tape,       \* what gen_tape recorded (NoTape when absent)
    disc_tape,      \* what disc_tape recorded (NoTape when absent/deleted)
    gen_applied,    \* gradients applied to the generator in this iteration
    disc_applied,   \* gradients applied to the discriminator in this iteration
    cumulative,     \* train(): running sum of scores
    eval_count,     \* train(): number of scores
    avg_fid,        \* value returned by the last train() call
    save_counter,   \* the checkpoint's save counter
    ckpts,          \* checkpoints on disk, oldest first
    saves,          \* manager.save() calls made by this process
    img,            \* test(): the generated batch, then its rescaled form
    gen_img,        \* test(): the generator's output as drawn
    written         \* test(): files handed to imwrite, in order

vars == << args, device_ok, source_len, pc, exc, reported, epoch, remaining,
           enum_count, iteration, batch, gen_params, disc_params, gen_tape,
           disc_tape, gen_applied, disc_applied, cumulative, eval_count,
           avg_fid, save_counter, ckpts, saves, img, gen_img, written >>

NoTape == [gen |-> -1, disc |-> -1]
NoBatch == [bs |-> 0, ch |-> 0]
NoValue == [sum |-> -1, count |-> -1]


\* --------------------------------------------------------- value domains
Modes == {"train", "test"}
Scores == 0..MaxScore
PixVals == (0 - PixDen)..PixDen          \* a pixel k stands for k / PixDen
ChannelChoices == {Channels, 1}
BatchShapes == [bs : 1..MaxBatchSize, ch : ChannelChoices]
ShortLens == 0..MaxBatches
LongLens == {EvalEvery + 1}

Min(a, b) == IF a < b THEN a ELSE b
Max(a, b) == IF a > b THEN a ELSE b

\* Sequence s without its first n elements.
Drop(s, n) == SubSeq(s, n + 1, Len(s))

\* ------------------------------------------------------- checkpoint manager
\* State of the network that a checkpoint holds.
Snapshot(g, d) == [gen |-> g, disc |-> d]

\* Variant: nothing is deleted after the new checkpoint is written.
ManagerSave_NoPrune(kept, counter, snap) ==
    Append(kept, [id |-> counter + 1, state |-> snap])

\* manager.save(): the save counter is incremented and names the new
\* checkpoint, which is appended; the oldest beyond max_to_keep are deleted.
ManagerSave(kept, counter, snap) ==
    LET all == Append(kept, [id |-> counter + 1, state |-> snap])
    IN  Drop(all, Max(0, Len(all) - max_to_keep))

\* What an earlier run that saved p checkpoints left in ./checkpoints; its
\* k-th checkpoint is taken to hold parameter version k of both networks.
PriorCheckpoints(p) ==
    [i \in 1..Min(p, max_to_keep) |->
        LET k == p - Min(p, max_to_keep) + i
        IN  [id |-> k, state |-> Snapshot(k, k)]]

\* ---------------------------------------------------------------- train()
\* Variant: a step counter carried over from the previous epoch.
EnumerateStart_Carry(previous) == previous

\* enumerate(dataset_iterator) counts from zero in every call of train().
EnumerateStart(previous) == 0

\* Variant: the discriminator step on the last iteration of each group.
DiscUpdateDue_OffByOne(i) == (i + 1) % args.num_gen_updates = 0

\* `iteration % args.num_gen_updates == 0`
DiscUpdateDue(i) == i % args.num_gen_updates = 0

\* Variant: the save on the last iteration of each group.
SaveDue_OffByOne(i) == (i + 1) % args.save_every = 0

\* `iteration % args.save_every == 0`
SaveDue(i) == i % args.save_every = 0

\* Variant: the evaluation tied to the save cadence.
EvalDue_SaveCadence(i) == i % args.save_every = 0

\* `iteration % 500 == 0`
EvalDue(i) == i % EvalEvery = 0

\* discriminator(batch): the model is built for [None, 64, 64, 3] inputs, so
\* any batch size is accepted and the channel count must be 3.
DiscriminatorAccepts(b) == b.ch = Channels

\* What a tape records in the `with` block: the parameter versions the forward
\* passes and the losses were computed from.
Record(g, d) == [gen |-> g, disc |-> d]

\* gen_tape.gradient(gen_loss, ...): computed from what the tape recorded.
GenGradient(tape) == tape

\* Variant: the discriminator's loss recomputed from the current parameters.
DiscGradient_Recomputed(tape, g, d) == Record(g, d)

\* disc_tape.gradient(disc_loss, ...): computed from what the tape recorded,
\* whatever the parameters (g, d) are by the time it is called.
DiscGradient(tape, g, d) == tape

\* --------------------------------------------------------------- test()
\* ((img / 2) - 0.5) * 255 for a pixel k / PixDen, as a numerator over the
\* denominator 2 * PixDen.
Rescale(k) == (k - PixDen) * 255

\* Integer part of num / (2 * PixDen), rounded toward zero.
Trunc(num) ==
    IF num >= 0 THEN num \div (2 * PixDen) ELSE 0 - ((0 - num) \div (2 * PixDen))

\* img.astype(np.uint8): the conversion of an out-of-range value wraps modulo
\* 256 on some platforms and saturates on others.
CastModes == {"wrap", "saturate"}
ToUint8(num, castmode) ==
    IF castmode = "wrap" THEN Trunc(num) % 256
    ELSE Max(0, Min(255, Trunc(num)))

\* ------------------------------------------------------------------ Init
Args == [mode : Modes, num_epochs : 1..MaxEpochs,
         num_gen_updates : 1..MaxGenUpdates, save_every : 1..MaxSaveEvery,
         batch_size : 1..MaxBatchSize, restore_checkpoint : BOOLEAN]

\* The process as main() is entered.  The checkpoint directory is empty unless
\* the run restores from it.  A pass over the dataset longer than MaxBatches
\* (long enough to reach the second evaluation) is explored for one epoch.
\* In test mode the options and the dataset that only train() reads are held
\* at their smallest values.
Init ==
    /\ args \in Args
    /\ device_ok \in BOOLEAN
    /\ source_len \in ShortLens \cup LongLens
    /\ args.mode = "test" =>
          /\ args.num_epochs = 1 /\ args.num_gen_updates = 1
          /\ args.save_every = 1 /\ source_len = 0
          /\ ~args.restore_checkpoint
    /\ source_len \in LongLens =>
          /\ args.mode = "train" /\ device_ok
          /\ args.num_epochs = 1 /\ args.batch_size = 1
          /\ ~args.restore_checkpoint
    /\ \E p \in 0..MaxPrior :
          /\ (p > 0 => (args.restore_checkpoint \/ args.mode = "test"))
          /\ ckpts = PriorCheckpoints(p)
    /\ pc = "main"
    /\ exc = "none"
    /\ reported = FALSE
    /\ epoch = 0
    /\ remaining = 0
    /\ enum_count = 0
    /\ iteration = 0
    /\ batch = NoBatch
    /\ gen_params = 0
    /\ disc_params = 0
    /\ gen_tape = NoTape
    /\ disc_tape = NoTape
    /\ gen_applied = << >>
    /\ disc_applied = << >>
    /\ cumulative = 0
    /\ eval_count = 0
    /\ avg_fid = NoValue
    /\ save_counter = 0
    /\ saves = 0
    /\ img = << >>
    /\ gen_img = << >>
    /\ written = << >>

cfgVars == << args, device_ok, source_len >>
trainVars == << remaining, enum_count, iteration, batch, gen_tape, disc_tape,
                gen_applied, disc_applied, cumulative, eval_count, avg_fid >>
netVars == << gen_params, disc_params >>
ckptVars == << save_counter, ckpts, saves >>
testVars == << img, gen_img, written >>

\* An exception leaves the function; `caught` tells whether main()'s
\* `except RuntimeError` handles it (and prints it).
Raise(name, caught) ==
    /\ exc' = name
    /\ reported' = caught
    /\ pc' = "exit"

\* ---------------------------------------------------------------- main()
\* Lines 363-382: construction, then checkpoint.restore(latest) when asked to
\* restore or in test mode (nothing is restored when there is no checkpoint).
Main ==
    /\ pc = "main"
    /\ IF (args.restore_checkpoint \/ args.mode = "test") /\ Len(ckpts) > 0
       THEN /\ gen_params' = ckpts[Len(ckpts)].state.gen
            /\ disc_params' = ckpts[Len(ckpts)].state.disc
            /\ save_counter' = ckpts[Len(ckpts)].id
       ELSE UNCHANGED << gen_params, disc_params, save_counter >>
    /\ pc' = "device"
    /\ UNCHANGED << cfgVars, trainVars, testVars, ckpts, saves, exc, reported,
                    epoch >>

\* Lines 384-387, 395-398: entering the device scope; an invalid device is a
\* RuntimeError, which the except clause prints.
Device ==
    /\ pc = "device"
    /\ IF ~device_ok
       THEN Raise("RuntimeError", TRUE)
       ELSE /\ pc' = IF args.mode = "train" THEN "epoch" ELSE "test_sample"
            /\ UNCHANGED << exc, reported >>
    /\ UNCHANGED << cfgVars, trainVars, netVars, ckptVars, testVars, epoch >>

\* Line 388-390: the head of `for epoch in range(0, args.num_epochs)`; entering
\* the body calls train() (lines 293-296: the accumulators, a fresh pass over
\* the dataset, enumerate from zero).  After the last epoch main() returns.
EpochHead ==
    /\ pc = "epoch"
    /\ IF epoch < args.num_epochs
       THEN /\ cumulative' = 0
            /\ eval_count' = 0
            /\ remaining' = source_len
            /\ enum_count' = EnumerateStart(enum_count)
            /\ pc' = "await"
       ELSE /\ pc' = "exit"
            /\ UNCHANGED << cumulative, eval_count, remaining, enum_count >>
    /\ UNCHANGED << cfgVars, netVars, ckptVars, testVars, exc, reported, epoch,
                    iteration, batch, gen_tape, disc_tape, gen_applied,
                    disc_applied, avg_fid >>

\* Lines 391-394: the save at the end of the epoch.
EpochSave ==
    /\ pc = "epoch_save"
    /\ ckpts' = ManagerSave(ckpts, save_counter, Snapshot(gen_params, disc_params))
    /\ save_counter' = save_counter + 1
    /\ saves' = saves + 1
    /\ epoch' = epoch + 1
    /\ pc' = "epoch"
    /\ UNCHANGED << cfgVars, trainVars, netVars, testVars, exc, reported >>

\* ---------------------------------------------------------------- train()
\* Line 296: the loop head asks the iterator for the next batch; exhaustion
\* ends the loop.
AwaitBatch ==
    /\ pc = "await"
    /\ IF remaining > 0
       THEN /\ batch' \in BatchShapes
            /\ remaining' = remaining - 1
            /\ iteration' = enum_count
            /\ enum_count' = enum_count + 1
            /\ gen_applied' = << >>
            /\ disc_applied' = << >>
            /\ pc' = "forward"
       ELSE /\ pc' = "return"
            /\ UNCHANGED << batch, remaining, iteration, enum_count,
                            gen_applied, disc_applied >>
    /\ UNCHANGED << cfgVars, netVars, ckptVars, testVars, exc, reported, epoch,
                    gen_tape, disc_tape, cumulative, eval_count, avg_fid >>

\* Lines 299-305: noise of args.batch_size rows, both forward passes and both
\* losses under the two tapes.  The losses are scalar means, so nothing
\* compares the batch sizes of the real and the generated batch; a real batch
\* with another channel count is rejected by the discriminator (ValueError).
Forward ==
    /\ pc = "forward"
    /\ IF DiscriminatorAccepts(batch)
       THEN /\ gen_tape' = Record(gen_params, disc_params)
            /\ disc_tape' = Record(gen_params, disc_params)
            /\ pc' = "gen_update"
            /\ UNCHANGED << exc, reported >>
       ELSE /\ Raise("ValueError", FALSE)
            /\ UNCHANGED << gen_tape, disc_tape >>
    /\ UNCHANGED << cfgVars, netVars, ckptVars, testVars, epoch, remaining,
                    enum_count, iteration, batch, gen_applied, disc_applied,
                    cumulative, eval_count, avg_fid >>

\* Lines 307-309: the generator's gradients and its optimizer step.
UpdateGenerator ==
    /\ pc = "gen_update"
    /\ gen_applied' = Append(gen_applied, GenGradient(gen_tape))
    /\ gen_params' = gen_params + 1
    /\ pc' = "disc_update"
    /\ UNCHANGED << cfgVars, ckptVars, testVars, exc, reported, epoch, remaining,
                    enum_count, iteration, batch, disc_params, gen_tape,
                    disc_tape, disc_applied, cumulative, eval_count, avg_fid >>

\* Lines 311-319: the discriminator's gradients and optimizer step when due,
\* otherwise the tape is deleted.
UpdateDiscriminator ==
    /\ pc = "disc_update"
    /\ IF DiscUpdateDue(iteration)
       THEN /\ disc_applied' =
                  Append(disc_applied, DiscGradient(disc_tape, gen_params, disc_params))
            /\ disc_params' = disc_params + 1
            /\ UNCHANGED disc_tape
       ELSE /\ disc_tape' = NoTape
            /\ UNCHANGED << disc_applied, disc_params >>
    /\ pc' = "save"
    /\ UNCHANGED << cfgVars, ckptVars, testVars, exc, reported, epoch, remaining,
                    enum_count, iteration, batch, gen_params, gen_tape,
                    gen_applied, cumulative, eval_count, avg_fid >>

\* Lines 321-323: the periodic save.
MaybeCheckpoint ==
    /\ pc = "save"
    /\ IF SaveDue(iteration)
       THEN /\ ckpts' = ManagerSave(ckpts, save_counter,
                                    Snapshot(gen_params, disc_params))
            /\ save_counter' = save_counter + 1
            /\ saves' = saves + 1
       ELSE UNCHANGED ckptVars
    /\ pc' = "eval"
    /\ UNCHANGED << cfgVars, trainVars, netVars, testVars, exc, reported, epoch >>

\* Lines 325-333: the periodic evaluation; fid_function's score is opaque.
MaybeEvaluate ==
    /\ pc = "eval"
    /\ IF EvalDue(iteration)
       THEN \E fid \in Scores :
               /\ cumulative' = cumulative + fid
               /\ eval_count' = eval_count + 1
       ELSE UNCHANGED << cumulative, eval_count >>
    /\ pc' = "await"
    /\ UNCHANGED << cfgVars, netVars, ckptVars, testVars, exc, reported, epoch,
                    remaining, enum_count, iteration, batch, gen_tape, disc_tape,
                    gen_applied, disc_applied, avg_fid >>

\* Line 335: cumulative / eval_count; with no evaluation both are the integer
\* 0 and the division raises ZeroDivisionError, which main() does not catch.
Return ==
    /\ pc = "return"
    /\ IF eval_count = 0
       THEN /\ Raise("ZeroDivisionError", FALSE)
            /\ UNCHANGED avg_fid
       ELSE /\ avg_fid' = [sum |-> cumulative, count |-> eval_count]
            /\ pc' = "epoch_save"
            /\ UNCHANGED << exc, reported >>
    /\ UNCHANGED << cfgVars, netVars, ckptVars, testVars, epoch, remaining,
                    enum_count, iteration, batch, gen_tape, disc_tape,
                    gen_applied, disc_applied, cumulative, eval_count >>

\* ----------------------------------------------------------------- test()
\* Line 348: one generated image per noise row; an image is one pixel here.
TestSample ==
    /\ pc = "test_sample"
    /\ \E out \in [1..args.batch_size -> PixVals] :
          /\ gen_img' = out
          /\ img' = out
    /\ pc' = "test_rescale"
    /\ UNCHANGED << cfgVars, trainVars, netVars, ckptVars, exc, reported, epoch,
                    written >>

\* Line 352.
TestRescale ==
    /\ pc = "test_rescale"
    /\ img' = [i \in 1..Len(img) |-> Rescale(img[i])]
    /\ pc' = "test_astype"
    /\ UNCHANGED << cfgVars, trainVars, netVars, ckptVars, exc, reported, epoch,
                    gen_img, written >>

\* Line 354: `img` is what the arithmetic on the generator's output gave.  A
\* tensor has no astype unless NumPy behaviour is enabled (AttributeError,
\* which main() does not catch); otherwise the values are converted.
TestAstype ==
    /\ pc = "test_astype"
    /\ \/ /\ Raise("AttributeError", FALSE)
          /\ UNCHANGED img
       \/ /\ \E castmode \in CastModes :
                img' = [i \in 1..Len(img) |-> ToUint8(img[i], castmode)]
          /\ pc' = "test_write"
          /\ UNCHANGED << exc, reported >>
    /\ UNCHANGED << cfgVars, trainVars, netVars, ckptVars, epoch, gen_img,
                    written >>

\* Lines 356-359: `for i in range(0, args.batch_size)`; i is the number of
\* files written so far.
TestWrite ==
    /\ pc = "test_write"
    /\ IF Len(written) < args.batch_size
       THEN /\ written' = Append(written, [name |-> Len(written),
                                           pixel |-> img[Len(written) + 1]])
            /\ pc' = "test_write"
       ELSE /\ pc' = "exit"
            /\ UNCHANGED written
    /\ UNCHANGED << cfgVars, trainVars, netVars, ckptVars, exc, reported, epoch,
                    img, gen_img >>

Next ==
    \/ Main
    \/ Device
    \/ EpochHead
    \/ EpochSave
    \/ AwaitBatch
    \/ Forward
    \/ UpdateGenerator
    \/ UpdateDiscriminator
    \/ MaybeCheckpoint
    \/ MaybeEvaluate
    \/ Return
    \/ TestSample
    \/ TestRescale
    \/ TestAstype
    \/ TestWrite

Spec == Init /\ [][Next]_vars

\* ================================================================ claims
\* The body of iteration `iteration` has passed both update points.
AfterUpdates ==
    \/ pc \in {"save", "eval"}
    \/ pc \in {"await", "return"} /\ enum_count > 0

\* The run ended by main() returning after all its work, with no exception.
CompletedTrain == pc = "exit" /\ exc = "none" /\ args.mode = "train"

Ceil(a, b) == (a + b - 1) \div b

\* C1: in every iteration of train() the generator's parameters are updated
\* (once, relative to what the forward pass of that iteration read), and the
\* discriminator's parameters are updated exactly when
\* iteration mod num_gen_updates = 0 and are unchanged otherwise.
C1_UpdateCadence ==
    AfterUpdates =>
        /\ gen_params = gen_tape.gen + 1
        /\ disc_params =
              gen_tape.disc + (IF iteration % args.num_gen_updates = 0 THEN 1 ELSE 0)

\* C1 witness: num_gen_updates = 2, ten iterations done: the generator was
\* updated ten times and the discriminator on iterations 0,2,4,6,8 only.
C1_Witness ==
    /\ args.num_gen_updates = 2
    /\ pc = "await" /\ enum_count = 10 /\ iteration = 9
    /\ gen_params = 10
    /\ disc_params = 5

\* C2: an epoch over a source of N batches performs exactly N iterations and
\* train() returns without dividing by zero, N = 0 included.
C2_ExhaustionNoDivByZero ==
    /\ pc = "return" => enum_count = source_len
    /\ exc # "ZeroDivisionError"

C4_SamplingRescale ==
    (pc = "exit" /\ args.mode = "test" /\ device_ok) =>
        /\ Len(written) = args.batch_size
        /\ \A i \in 1..Len(written) :
              /\ written[i].name = i - 1
              /\ written[i].pixel \in 0..255
              /\ gen_img[i] = 0 - PixDen => written[i].pixel = 0
              /\ gen_img[i] = PixDen => written[i].pixel = 255

\* C5: in train() a checkpoint is saved on exactly the iterations with
\* iteration mod save_every = 0; every return of train() is followed by one
\* more save; a run that completes its epochs ends with the latest checkpoint
\* holding the parameters as the last update left them.
C5_CheckpointSchedule ==
    [][ /\ pc = "save" =>
              /\ saves' = saves + (IF iteration % args.save_every = 0 THEN 1 ELSE 0)
              /\ saves' > saves =>
                    ckpts'[Len(ckpts')].state = Snapshot(gen_params, disc_params)
        /\ (pc = "return" /\ pc' # "exit") => pc' = "epoch_save"
        /\ pc = "epoch_save" =>
              /\ saves' = saves + 1
              /\ ckpts'[Len(ckpts')].state = Snapshot(gen_params, disc_params)
        /\ pc \notin {"save", "epoch_save"} => saves' = saves
        /\ CompletedTrain' =>
              /\ Len(ckpts') > 0
              /\ ckpts'[Len(ckpts')].state = Snapshot(gen_params', disc_params')
      ]_vars

\* C5 witness: a completed run of two epochs of three batches with
\* save_every = 2: iterations 0 and 2 and the epoch end save, in each epoch.
C5_Witness ==
    /\ CompletedTrain
    /\ args.num_epochs = 2 /\ source_len = 3 /\ args.save_every = 2
    /\ saves = 6
    /\ gen_params = ckpts[Len(ckpts)].state.gen

\* C6: main() exits either on an invalid device, with the error printed and
\* no iteration and no save made, or by normal completion of all epochs
\* (train mode) or of the sample generation (test mode).
C6_ExitBehaviour ==
    pc = "exit" =>
        IF ~device_ok
        THEN exc = "RuntimeError" /\ reported /\ enum_count = 0 /\ saves = 0
        ELSE /\ exc = "none"
             /\ args.mode = "train" => epoch = args.num_epochs
             /\ args.mode = "test" => Len(written) = args.batch_size

\* C7: an iteration whose real batch differs from the generated batch in
\* batch size or channel count never gets past the forward pass.
C7_ShapeMismatchFailsFast ==
    pc \in {"gen_update", "disc_update", "save", "eval"} =>
        /\ batch.bs = args.batch_size
        /\ batch.ch = Channels

\* C8: the evaluator runs on exactly the iterations with iteration mod 500 = 0
\* (whatever save_every and num_gen_updates are); each run adds its score to
\* the sum and one to the count, nothing else changes them within the epoch,
\* and train() returns that sum over that count.
C8_Evaluation ==
    [][ /\ pc = "eval" =>
              IF iteration % EvalEvery = 0
              THEN /\ eval_count' = eval_count + 1
                   /\ (cumulative' - cumulative) \in Scores
              ELSE UNCHANGED << cumulative, eval_count >>
        /\ (pc = "epoch" /\ pc' = "await") => (cumulative' = 0 /\ eval_count' = 0)
        /\ pc \notin {"eval", "epoch"} => UNCHANGED << cumulative, eval_count >>
        /\ pc' = "return" => eval_count' = Ceil(enum_count', EvalEvery)
        /\ pc' = "epoch_save" =>
              /\ avg_fid'.sum = cumulative' /\ avg_fid'.count = eval_count'
              /\ avg_fid'.count = Ceil(enum_count', EvalEvery)
      ]_vars

\* C8 witness: iteration 500 evaluated (the second score of the epoch) with
\* a save_every and a num_gen_updates that do not divide 500.
C8_Witness ==
    /\ pc = "await" /\ iteration = EvalEvery /\ enum_count = EvalEvery + 1
    /\ args.save_every = 3 /\ args.num_gen_updates = 3
    /\ eval_count = 2
    /\ cumulative = 2

\* The parts of C9 that do not count the discriminator's updates: forward
\* passes and losses are recorded before any parameter changes, the generator
\* is updated once and before the discriminator, and a discriminator gradient
\* applied is the one recorded before the generator update of the iteration.
C9_Order ==
    /\ pc = "gen_update" =>
          /\ gen_applied = << >> /\ disc_applied = << >>
          /\ gen_tape = Record(gen_params, disc_params)
          /\ disc_tape = gen_tape
    /\ pc = "disc_update" =>
          /\ Len(gen_applied) = 1 /\ disc_applied = << >>
          /\ gen_params = gen_tape.gen + 1
          /\ disc_params = gen_tape.disc
    /\ pc \in {"save", "eval"} =>
          /\ Len(gen_applied) = 1
          /\ gen_applied[1] = gen_tape
          /\ \A k \in 1..Len(disc_applied) :
                /\ disc_applied[k] = gen_tape
                /\ disc_applied[k].gen = gen_params - 1

\* C9 as stated: ... and each network's parameters are updated once per
\* iteration.
C9_OncePerIteration ==
    /\ C9_Order
    /\ pc \in {"save", "eval"} => (Len(gen_applied) = 1 /\ Len(disc_applied) = 1)

\* C9 as amended: ... the generator's parameters are updated once per
\* iteration and the discriminator's at most once: once when
\* iteration mod num_gen_updates = 0 and not at all otherwise.
C9_Sequenced ==
    /\ C9_Order
    /\ pc \in {"save", "eval"} =>
          Len(disc_applied) = (IF iteration % args.num_gen_updates = 0 THEN 1 ELSE 0)

\* C9 witness: a discriminator update applied in an iteration after the first,
\* from the tape recorded before that iteration's generator update.
C9_Witness ==
    /\ pc = "save" /\ iteration = 2 /\ args.num_gen_updates = 2
    /\ Len(disc_applied) = 1
    /\ disc_applied[1].gen = gen_params - 1
    /\ disc_applied[1].disc = disc_params - 1

\* C10: the iteration counter restarts at 0 in every train() call, so the
\* first iteration of every epoch updates the discriminator, saves and
\* evaluates; the count is at least 1 at the end of an epoch with a batch; a
\* completed run of E epochs of N >= 1 batches made
\* E * (ceil(N / save_every) + 1) saves.
C10_IterationZero ==
    /\ (pc \in {"forward", "gen_update", "disc_update", "save", "eval"}
           /\ enum_count = 1) => iteration = 0
    /\ (pc = "await" /\ enum_count = 1) =>
          /\ Len(disc_applied) = 1
          /\ eval_count = 1
          /\ saves > 0
          /\ ckpts[Len(ckpts)].state = Snapshot(gen_params, disc_params)
    /\ pc \in {"forward", "gen_update", "disc_update", "save", "eval"} =>
          iteration = source_len - remaining - 1
    /\ (pc = "return" /\ source_len >= 1) => eval_count >= 1
    /\ (CompletedTrain /\ source_len >= 1) =>
          saves = args.num_epochs * (Ceil(source_len, args.save_every) + 1)

\* C10 witness: the first iteration of the second epoch is done, with
\* num_gen_updates = save_every = 3 and two batches per epoch.
C10_Witness ==
    /\ epoch = 1 /\ pc = "await" /\ enum_count = 1 /\ iteration = 0
    /\ args.num_gen_updates = 3 /\ args.save_every = 3 /\ source_len = 2
    /\ Len(disc_applied) = 1
    /\ saves = 3

====
